---- MODULE Spec2Model ----
(***************************************************************************)
(* Model of apiscraper.py: the snapshot store (StateMonitor.old_values),   *)
(* the activity classifier (ongoing_activity_status), the polling          *)
(* scheduler (check_states), the wake scheduler (calculate_next_wakeup)    *)
(* and the main program loop.                                              *)
(***************************************************************************)
EXTENDS Integers, Sequences, FiniteSets, TLC

(***************************************************************************)
(* Python values.  Every value has the same three fields so that any two   *)
(* values can be compared.  Absent is "the key is not in the dict".        *)
(***************************************************************************)
NoneV == [k |-> "none", i |-> 0, s |-> ""]
Absent == [k |-> "absent", i |-> 0, s |-> ""]
IntV(n) == [k |-> "int", i |-> n, s |-> ""]
StrV(x) == [k |-> "str", i |-> 0, s |-> x]
BoolV(b) == [k |-> "bool", i |-> IF b THEN 1 ELSE 0, s |-> ""]

\* dict.get(key, default)
Get(v, default) == IF v = Absent THEN default ELSE v

\* Python ==  (bool is an int: True == 1, False == 0)
IsNum(v) == v.k \in {"int", "bool"}
PyEq(a, b) == IF IsNum(a) /\ IsNum(b) THEN a.i = b.i ELSE a = b

\* Python truthiness
Truthy(v) ==
    CASE v.k = "none" -> FALSE
      [] v.k = "absent" -> FALSE
      [] v.k = "str" -> v.s # ""
      [] OTHER -> v.i # 0

\* str.lower() on the strings the device reports
Lower(x) ==
    CASE x = "Charging" -> "charging"
      [] x = "Starting" -> "starting"
      [] x = "Complete" -> "complete"
      [] x = "Disconnected" -> "disconnected"
      [] x = "Stopped" -> "stopped"
      [] OTHER -> x

(***************************************************************************)
(* Configuration (config.py, imported at line 41) and module constants.    *)
(***************************************************************************)
a_awake_poll_secs == 1
a_maximum_sleep == 4
a_dry_run == FALSE
a_resolve_elevation == TRUE
a_ignore == {"media_state", "software_update", "speed_limit_mode"}
NotStoredForChange == {"timestamp", "gps_as_of", "left_temp_direction",
                       "right_temp_direction", "charge_port_latch"}

\* bounds of the model
StartTime == 10
MaxElapsed == 6
MaxStreak == 20
MaxTs == 2
MaxElevators == 3

requests == <<"charge_state", "climate_state", "drive_state", "gui_settings",
              "vehicle_state">>
Categories == {requests[n] : n \in 1..Len(requests)}

pollTimes == <<2, 5, 15, 30, 45, 60, 120, 120, 120, 120, 120, 120, 120, 120,
               120, 120, 2000, 120>>

\* the fields of each category that the model follows ("timestamp" apart)
FieldsOf(c) ==
    CASE c = "charge_state" -> {"charging_state", "fast_charger_present",
                                "charger_voltage", "charger_actual_current",
                                "scheduled_charging_pending",
                                "scheduled_charging_start_time"}
      [] c = "climate_state" -> {"is_climate_on"}
      [] c = "drive_state" -> {"shift_state", "speed", "native_latitude",
                               "native_longitude"}
      [] c = "gui_settings" -> {}
      [] c = "vehicle_state" -> {"center_display_state"}

KeysOf(c) == FieldsOf(c) \cup {"timestamp"}

\* self.old_values after __init__: one empty dict per category
EmptyStore == [c \in Categories |-> [f \in KeysOf(c) |-> Absent]]

(***************************************************************************)
(* ongoing_activity_status.  "RAISE" is an uncaught exception              *)
(* (AttributeError on None.lower(), TypeError on None > 10, None - int).   *)
(***************************************************************************)
Abs(n) == IF n < 0 THEN -n ELSE n

ScreenLabel(d) ==
    CASE IsNum(d) /\ d.i = 2 -> "screen on (normal)"
      [] IsNum(d) /\ d.i = 3 -> "screen on (charging)"
      [] IsNum(d) /\ d.i = 7 -> "screen on (sentry)"
      [] IsNum(d) /\ d.i = 8 -> "screen on (dog mode)"
      [] OTHER -> "screen on"

ongoing_activity_status(ov, t) ==
    LET shift == Get(ov["drive_state"]["shift_state"], StrV(""))
        sp == Get(ov["drive_state"]["speed"], IntV(0))
        old_speed == IF Truthy(sp) THEN sp ELSE IntV(0)
        cs == Get(ov["charge_state"]["charging_state"], StrV(""))
        cv == Get(ov["charge_state"]["charger_voltage"], IntV(0))
        cac == Get(ov["charge_state"]["charger_actual_current"], IntV(0))
        pending == Get(ov["charge_state"]["scheduled_charging_pending"], BoolV(FALSE))
        scheduled_time == Get(ov["charge_state"]["scheduled_charging_start_time"], IntV(0))
        climate == Get(ov["climate_state"]["is_climate_on"], BoolV(FALSE))
        display == Get(ov["vehicle_state"]["center_display_state"], IntV(0))
    IN  IF shift \in {StrV("R"), StrV("D"), StrV("N")} \/ old_speed.i > 0 THEN "driving"
        ELSE IF cs.k # "str" THEN "RAISE"
        ELSE IF Lower(cs.s) \in {"charging", "starting"} THEN "charging"
        ELSE IF ~IsNum(cv) THEN "RAISE"
        ELSE IF cv.i > 10 /\ ~IsNum(cac) THEN "RAISE"
        ELSE IF cv.i > 10 /\ cac.i > 0 THEN "charging"
        ELSE IF Truthy(pending) /\ ~IsNum(scheduled_time) THEN "RAISE"
        ELSE IF Truthy(pending) /\ Abs(scheduled_time.i - t) <= 2 THEN "charging"
        ELSE IF Truthy(climate) THEN "conditioning"
        ELSE IF ~(IsNum(display) /\ display.i \in {0, 5}) THEN ScreenLabel(display)
        ELSE "idle"

(***************************************************************************)
(* request_state_group: the loop over the categories of one response.      *)
(***************************************************************************)
\* a_validity_checks: element -> (eval, set)
ValidityViolated(element, new_value) ==
    element = "charger_voltage" /\ IsNum(new_value) /\ new_value.i < 0

ValiditySet(element) == IntV(0)

\* an update that stores what the device reported, None included
SubstitutedNothing(element, old_value, new_value) == new_value

\* lines 237-252: the value of an element after the substitutions
\* (speed None -> 0; shift_state None -> the old value)
Substituted(element, old_value, new_value) ==
    IF element = "speed" /\ new_value = NoneV THEN IntV(0)
    ELSE IF ~PyEq(new_value, old_value) /\ new_value = NoneV /\ element \in {"shift_state"}
         THEN old_value
    ELSE new_value

\* an update without the validity check
CheckedNotApplied(element, v) == v

\* lines 254-262: the value after the validity check (only for a reported,
\* non-ignored element)
Checked(element, v) ==
    IF v # NoneV /\ element \notin a_ignore /\ ValidityViolated(element, v)
    THEN ValiditySet(element)
    ELSE v

\* lines 226-263 for one element of a category: what is stored for it and
\* what goes into the measurement's fields (Absent: nothing)
ProcessElement(element, stored, new_value) ==
    LET old_value == Get(stored, StrV(""))
        v == Checked(element, Substituted(element, old_value, new_value))
    IN  IF new_value = Absent \/ element \in NotStoredForChange
        THEN [store |-> stored, field |-> Absent]
        ELSE IF element = "vehicle_name" /\ ~Truthy(new_value)
        THEN [store |-> stored, field |-> Absent]
        ELSE [store |-> v,
              field |-> IF v # NoneV /\ element \notin a_ignore THEN v ELSE Absent]

\* one category whose timestamp differs from the stored one (lines 213-263)
ProcessCategory(stored, result) ==
    [f \in DOMAIN stored |->
        IF f = "timestamp" THEN result["timestamp"]
        ELSE ProcessElement(f, stored[f], result[f]).store]

FieldsWritten(stored, result) ==
    [f \in DOMAIN stored |->
        IF f = "timestamp" THEN Absent
        ELSE ProcessElement(f, stored[f], result[f]).field]

NoFields(c) == [f \in KeysOf(c) |-> Absent]
NothingWritten == [c \in Categories |-> NoFields(c)]

\* a loop that processes a category whatever its timestamp
SameTimestampIgnored(stored, result) == FALSE

\* line 211: the staleness test of one category
SameTimestamp(stored, result) ==
    PyEq(Get(stored["timestamp"], StrV("")), result["timestamp"])

\* lines 278-280
Measurement(c, stored, result) ==
    LET fields == FieldsWritten(stored, result)
    IN  IF ~a_dry_run /\ fields # NoFields(c) THEN fields ELSE NoFields(c)

\* lines 207-280: categories from index n on; an unchanged timestamp ends the loop
RECURSIVE CategoryLoop(_, _, _, _)
CategoryLoop(n, ov, wr, r) ==
    IF n > Len(requests) THEN [ov |-> ov, written |-> wr]
    ELSE LET c == requests[n]
         IN  IF SameTimestamp(ov[c], r[c]) THEN [ov |-> ov, written |-> wr]
             ELSE CategoryLoop(n + 1,
                               [ov EXCEPT ![c] = ProcessCategory(ov[c], r[c])],
                               [wr EXCEPT ![c] = Measurement(c, ov[c], r[c])],
                               r)

\* lines 207-212: the loop reaches and processes category number n of the
\* response r when neither it nor a category before it repeats its timestamp
Processed(n, ov, r) ==
    \A k \in 1..n : ~SameTimestamp(ov[requests[k]], r[requests[k]])

\* lines 268-273: is_alive() of the Thread object built at line 268, which
\* has not been started
NewElevatorIsAlive == FALSE

\* lines 231-235 and 265-276: the number of elevator threads that the call
\* starts.  a_lat and a_long are set by the coordinates of a processed
\* drive_state, the only category that has them.
ElevatorsStarted(ov, r) ==
    IF /\ Processed(3, ov, r)
       /\ r["drive_state"]["native_latitude"] \notin {NoneV, Absent}
       /\ r["drive_state"]["native_longitude"] \notin {NoneV, Absent}
       /\ a_resolve_elevation
       /\ ~NewElevatorIsAlive
    THEN 1 ELSE 0

\* request_state_group: the store and the measurements after the response r,
\* and the value returned (or "RAISE"), at time t
request_state_group(ov, r, t) ==
    LET done == CategoryLoop(1, ov, NothingWritten, r)
        current_state == ongoing_activity_status(done.ov, t)
    IN  [ov |-> done.ov, written |-> done.written,
         raised |-> current_state = "RAISE",
         any_change |-> current_state # "idle"]

(***************************************************************************)
(* check_states.  fetch is what self.vehicle.get('vehicle_data') did:      *)
(* "ok" with a response, "timeout" (ContinuePollingError) or "httperror"   *)
(* (HTTPError).  The result carries the instance state after the call,     *)
(* the value returned, and whether an exception left the function.         *)
(***************************************************************************)
\* lines 321-325: the charging tier
ChargingTier(ov) ==
    IF PyEq(Get(ov["charge_state"]["fast_charger_present"], StrV("")), StrV("true"))
    THEN 5 ELSE 15

\* a ladder indexed by the streak itself and not by streak - 1
LadderIntervalOffByOne(count) ==
    IF count < Len(pollTimes) THEN pollTimes[count + 1]
    ELSE pollTimes[Len(pollTimes)]

\* lines 336-340: the ladder element of a streak that has just been incremented
LadderInterval(count) ==
    IF count - 1 < Len(pollTimes) THEN pollTimes[count - 1 + 1]
    ELSE pollTimes[Len(pollTimes) - 1 + 1]

\* an unchanged cycle that keeps the interval it was given
ComputeIntervalKeepsOnNoChange(ov, count, interval, any_change) ==
    LET interval1 == IF interval = 0 THEN a_awake_poll_secs ELSE interval
        cs == Get(ov["charge_state"]["charging_state"], StrV(""))
    IN  IF cs.k # "str" THEN [raised |-> TRUE, ret |-> interval1, count |-> count]
        ELSE IF any_change /\ Lower(cs.s) = "charging"
        THEN [raised |-> FALSE, ret |-> ChargingTier(ov), count |-> count]
        ELSE IF any_change
        THEN [raised |-> FALSE, ret |-> a_awake_poll_secs, count |-> 0]
        ELSE [raised |-> FALSE, ret |-> interval1, count |-> count]

\* lines 316-342, reached after a successful fetch or a timeout
ComputeInterval(ov, count, interval, any_change) ==
    LET interval1 == IF interval = 0 THEN a_awake_poll_secs ELSE interval
        cs == Get(ov["charge_state"]["charging_state"], StrV(""))
    IN  IF cs.k # "str" THEN [raised |-> TRUE, ret |-> interval1, count |-> count]
        ELSE IF Lower(cs.s) = "charging"
        THEN [raised |-> FALSE, ret |-> ChargingTier(ov), count |-> count]
        ELSE IF any_change
        THEN [raised |-> FALSE, ret |-> a_awake_poll_secs, count |-> 0]
        ELSE [raised |-> FALSE, ret |-> LadderInterval(count + 1), count |-> count + 1]

\* lines 296-302: driving forces the awake interval and any_change
Driving(ov) ==
    Get(ov["drive_state"]["shift_state"], StrV("")) \in {StrV("R"), StrV("D")}

\* an API error that always asks for the re-initialisation
OnHTTPErrorAlwaysReinit(interval, allow_sleep) == -1

\* lines 309-314
OnHTTPError(interval, allow_sleep) == IF allow_sleep = 1 THEN interval ELSE -1

check_states(ov, count, vstate, interval, kind, r, rstate, allow_sleep, t) ==
    LET same == [ov |-> ov, written |-> NothingWritten, count |-> count,
                 vstate |-> vstate, any_change |-> FALSE, raised |-> FALSE,
                 ret |-> interval]
    IN  CASE kind = "httperror" ->
               [same EXCEPT !.ret = OnHTTPError(interval, allow_sleep)]
          [] kind = "timeout" ->
               LET c == ComputeInterval(ov, count, interval, FALSE)
               IN  [same EXCEPT !.vstate = "asleep", !.raised = c.raised,
                                !.ret = c.ret, !.count = c.count]
          [] kind = "ok" ->
               LET g == request_state_group(ov, r, t)
                   drv == Driving(g.ov)
                   chg == g.any_change \/ drv
                   c == ComputeInterval(g.ov, count,
                                        IF drv THEN a_awake_poll_secs ELSE interval,
                                        chg)
               IN  IF g.raised
                   THEN [same EXCEPT !.ov = g.ov, !.written = g.written,
                                     !.vstate = rstate, !.raised = TRUE]
                   ELSE [ov |-> g.ov, written |-> g.written, count |-> c.count,
                         vstate |-> rstate, any_change |-> chg,
                         raised |-> c.raised, ret |-> c.ret]

(***************************************************************************)
(* calculate_next_wakeup: [raised, ret]                                    *)
(***************************************************************************)
calculate_next_wakeup(ov, t) ==
    LET wakeup_time == t + a_maximum_sleep
        pending == Get(ov["charge_state"]["scheduled_charging_pending"], BoolV(FALSE))
        scheduled_charge_time ==
            Get(ov["charge_state"]["scheduled_charging_start_time"], IntV(0))
    IN  IF ~Truthy(pending) THEN [raised |-> FALSE, ret |-> wakeup_time]
        ELSE IF ~IsNum(scheduled_charge_time) THEN [raised |-> TRUE, ret |-> wakeup_time]
        ELSE IF scheduled_charge_time.i > 0 /\ scheduled_charge_time.i < wakeup_time
        THEN [raised |-> FALSE, ret |-> scheduled_charge_time.i]
        ELSE [raised |-> FALSE, ret |-> wakeup_time]

\* a loop that sleeps the interval as computed
FinalClampIntervalMissing(interval, wakeup, t) == interval

\* lines 443-447: the final clamp of the interval against the next wake up
FinalClampInterval(interval, wakeup, t) ==
    IF t + interval > wakeup THEN wakeup - t ELSE interval

(***************************************************************************)
(* What the device may report.                                             *)
(***************************************************************************)
ChargeData(cs, fcp, cv, cac, scp, scst) ==
    [charging_state |-> cs, fast_charger_present |-> fcp, charger_voltage |-> cv,
     charger_actual_current |-> cac, scheduled_charging_pending |-> scp,
     scheduled_charging_start_time |-> scst]
\* a drive_state without a GPS fix: the coordinates are null
DriveData(shift, speed) ==
    [shift_state |-> shift, speed |-> speed, native_latitude |-> NoneV,
     native_longitude |-> NoneV]
ClimateData(on) == [is_climate_on |-> on]
VehicleData(display) == [center_display_state |-> display]

\* a category's result: its data and its timestamp
WithTimestamp(data, ts) ==
    [f \in DOMAIN data \cup {"timestamp"} |->
        IF f = "timestamp" THEN IntV(ts) ELSE data[f]]

NoData == [f \in {} |-> Absent]

ChargeIdle == ChargeData(StrV("Disconnected"), BoolV(FALSE), IntV(0), IntV(0),
                         BoolV(FALSE), NoneV)
ChargeSlow == ChargeData(StrV("Charging"), Absent, IntV(240), IntV(32),
                         BoolV(FALSE), NoneV)
ChargeFast == ChargeData(StrV("Charging"), BoolV(TRUE), IntV(240), IntV(32),
                         BoolV(FALSE), NoneV)
ChargeFastStr == ChargeData(StrV("Charging"), StrV("true"), IntV(240), IntV(32),
                            BoolV(FALSE), NoneV)
ChargeTail == ChargeData(StrV("Complete"), BoolV(FALSE), IntV(12), IntV(1),
                         BoolV(FALSE), NoneV)
ChargeNull == ChargeData(NoneV, BoolV(FALSE), NoneV, NoneV, BoolV(FALSE), NoneV)
ChargeScheduled(t) == ChargeData(StrV("Stopped"), BoolV(FALSE), IntV(0), IntV(0),
                                 BoolV(TRUE), IntV(t))

Parked == DriveData(StrV("P"), NoneV)
InDrive == DriveData(StrV("D"), IntV(30))

\* the whole responses of the main loop's device: (charge_state, drive_state)
Scenarios ==
    {<<ChargeIdle, Parked>>, <<ChargeSlow, Parked>>, <<ChargeFast, Parked>>,
     <<ChargeFastStr, Parked>>, <<ChargeTail, Parked>>, <<ChargeNull, Parked>>,
     <<ChargeIdle, InDrive>>, <<ChargeSlow, InDrive>>,
     <<ChargeScheduled(StartTime - 1), Parked>>,
     <<ChargeScheduled(StartTime + 3), Parked>>}

Response(sc, ts) ==
    [c \in Categories |->
        CASE c = "charge_state" -> WithTimestamp(sc[1], ts)
          [] c = "drive_state" -> WithTimestamp(sc[2], ts)
          [] c = "climate_state" -> WithTimestamp(ClimateData(BoolV(FALSE)), ts)
          [] c = "gui_settings" -> WithTimestamp(NoData, ts)
          [] c = "vehicle_state" -> WithTimestamp(VehicleData(IntV(0)), ts)]

Responses == {Response(sc, ts) : sc \in Scenarios, ts \in 1..MaxTs}
NoResponse == [c \in Categories |-> [f \in KeysOf(c) |-> Absent]]

(***************************************************************************)
(* The program: module-level state, the StateMonitor and the main loop.    *)
(***************************************************************************)
VARIABLES
    now,                 \* int(time.time())
    a_allow_sleep,       \* config.py
    old_values,          \* StateMonitor.old_values
    noChangesPollCount,  \* StateMonitor.noChangesPollCount
    vehicle_state,       \* StateMonitor.vehicle['state']
    poll_interval, next_wakeup, previous_car_state, first_run,
    pc,                  \* position in the main loop
    fetch,               \* what the fetch of this cycle did
    resp,                \* the response of this cycle's fetch
    written,             \* the measurements written by this cycle's fetch
    cs_given,            \* the interval given to check_states in this cycle
    any_change,          \* check_states' any_change at line 331
    car_active_status,   \* line 363
    wake_requested,      \* wake_up() was called in this cycle
    raw_interval,        \* poll_interval just before the final clamp
    elevators            \* the elevator threads that are running

vars == <<now, a_allow_sleep, old_values, noChangesPollCount, vehicle_state,
          poll_interval, next_wakeup, previous_car_state, first_run, pc,
          fetch, resp, written, cs_given, any_change, car_active_status,
          wake_requested, raw_interval, elevators>>

Deadline == StartTime + MaxElapsed

Init ==
    /\ now = StartTime
    /\ a_allow_sleep \in {0, 1}
    /\ old_values = EmptyStore
    /\ noChangesPollCount = 0
    /\ vehicle_state \in {"online", "asleep"}
    /\ poll_interval = a_awake_poll_secs
    /\ next_wakeup = StartTime + a_maximum_sleep
    /\ previous_car_state = ""
    /\ first_run = TRUE
    /\ pc = "poll"
    /\ fetch = "none"
    /\ resp = NoResponse
    /\ written = NothingWritten
    /\ cs_given = 0
    /\ any_change = FALSE
    /\ car_active_status = "None"
    /\ wake_requested = FALSE
    /\ raw_interval = 0
    /\ elevators = 0

\* lines 356-363: check_states with the given fetch, then the classifier
Poll(kind, r, rstate, d) ==
    /\ pc = "poll"
    /\ now + d <= Deadline
    /\ \E res \in {check_states(old_values, noChangesPollCount, vehicle_state,
                                poll_interval, kind, r, rstate, a_allow_sleep,
                                now + d)} :
       \E status \in {ongoing_activity_status(res.ov, now + d)} :
       \E crash \in {res.raised \/ status = "RAISE"} :
        /\ res.count <= MaxStreak
        /\ elevators' = IF kind = "ok" THEN elevators + ElevatorsStarted(old_values, r)
                        ELSE elevators
        /\ elevators' <= MaxElevators
        /\ now' = now + d
        /\ old_values' = res.ov
        /\ written' = res.written
        /\ noChangesPollCount' = res.count
        /\ vehicle_state' = res.vstate
        /\ poll_interval' = IF crash THEN poll_interval ELSE res.ret
        /\ pc' = IF crash THEN "crashed" ELSE "wake"
        /\ fetch' = kind
        /\ resp' = r
        /\ cs_given' = poll_interval
        /\ any_change' = res.any_change
        /\ car_active_status' = IF crash THEN car_active_status ELSE status
    /\ UNCHANGED <<a_allow_sleep, next_wakeup, previous_car_state, first_run,
                   wake_requested, raw_interval>>

FetchOk ==
    \E r \in Responses, d \in {0, 1} :
        Poll("ok", r, "online", d)

FetchTimeout == \E d \in {0, 1} : Poll("timeout", NoResponse, vehicle_state, d)

FetchHTTPError == \E d \in {0, 1} : Poll("httperror", NoResponse, vehicle_state, d)

\* a loop that wakes the device in its first cycle only
WakeDueFirstRunOnly(t, wakeup, first) == first

\* line 366: the forced wake is due
WakeDue(t, wakeup, first) == t > wakeup \/ first

\* lines 365-400 and 441: the forced wake, the state transitions
WakeScheduler ==
    /\ pc = "wake"
    /\ LET forced == WakeDue(now, next_wakeup, first_run)
           gone_asleep == vehicle_state = "asleep" /\ previous_car_state = "online"
           woke_up == previous_car_state = "asleep" /\ vehicle_state = "online"
           calc == calculate_next_wakeup(old_values, now)
           recompute == forced \/ gone_asleep \/ vehicle_state = "online"
       IN  IF recompute /\ calc.raised
           THEN /\ pc' = "crashed"
                /\ UNCHANGED <<poll_interval, next_wakeup, previous_car_state,
                               first_run, wake_requested, raw_interval>>
           ELSE \E awake \in IF forced THEN BOOLEAN ELSE {FALSE} :
                /\ pc' = "clamp"
                /\ wake_requested' = forced
                /\ next_wakeup' = IF recompute THEN calc.ret ELSE next_wakeup
                /\ poll_interval' = IF awake \/ woke_up THEN a_awake_poll_secs
                                    ELSE poll_interval
                /\ raw_interval' = poll_interval'
                /\ previous_car_state' = vehicle_state
                /\ first_run' = FALSE
    /\ UNCHANGED <<now, a_allow_sleep, old_values, noChangesPollCount, vehicle_state,
                   fetch, resp, written, cs_given, any_change, car_active_status,
                   elevators>>

\* lines 443-447
FinalClamp ==
    /\ pc = "clamp"
    /\ poll_interval' = FinalClampInterval(poll_interval, next_wakeup, now)
    /\ pc' = "sleep"
    /\ UNCHANGED <<now, a_allow_sleep, old_values, noChangesPollCount, vehicle_state,
                   next_wakeup, previous_car_state, first_run, fetch, resp, written,
                   cs_given, any_change, car_active_status, wake_requested,
                   raw_interval, elevators>>

\* line 450: time.sleep returns after poll_interval seconds
Sleep ==
    /\ pc = "sleep"
    /\ poll_interval >= 0
    /\ now + poll_interval <= Deadline
    /\ now' = now + poll_interval
    /\ pc' = "poll"
    /\ fetch' = "none"
    /\ resp' = NoResponse
    /\ written' = NothingWritten
    /\ cs_given' = 0
    /\ any_change' = FALSE
    /\ wake_requested' = FALSE
    /\ raw_interval' = 0
    /\ UNCHANGED <<a_allow_sleep, old_values, noChangesPollCount, vehicle_state,
                   poll_interval, next_wakeup, previous_car_state, first_run,
                   car_active_status, elevators>>

\* line 450: time.sleep raises ValueError on a negative length
SleepRaises ==
    /\ pc = "sleep"
    /\ poll_interval < 0
    /\ pc' = "crashed"
    /\ UNCHANGED <<now, a_allow_sleep, old_values, noChangesPollCount, vehicle_state,
                   poll_interval, next_wakeup, previous_car_state, first_run,
                   fetch, resp, written, cs_given, any_change, car_active_status,
                   wake_requested, raw_interval, elevators>>

Next ==
    \/ FetchOk
    \/ FetchTimeout
    \/ FetchHTTPError
    \/ WakeScheduler
    \/ FinalClamp
    \/ Sleep
    \/ SleepRaises

Spec == Init /\ [][Next]_vars

(***************************************************************************)
(* The device that stays asleep: it answers the first fetch of the process *)
(* at most, and every later fetch times out after a second of the clock.   *)
(* The loop keeps running (while True, line 354).                          *)
(***************************************************************************)
FirstFetchOk ==
    /\ first_run
    /\ \E r \in Responses : Poll("ok", r, "online", 0)

FetchTimedOut == Poll("timeout", NoResponse, vehicle_state, 1)

NextAsleep ==
    \/ FirstFetchOk
    \/ FetchTimedOut
    \/ WakeScheduler
    \/ FinalClamp
    \/ Sleep
    \/ SleepRaises

SpecAsleep == Init /\ [][NextAsleep]_vars /\ WF_vars(NextAsleep)

(***************************************************************************)
(* The snapshot store on its own: request_state_group applied to           *)
(* responses whose categories carry independent timestamps and data.       *)
(***************************************************************************)
ChargeNegative == ChargeData(StrV("Complete"), BoolV(FALSE), IntV(-5), IntV(0),
                             BoolV(FALSE), NoneV)
Unread == DriveData(NoneV, NoneV)

ChargeReports == {ChargeIdle, ChargeSlow, ChargeNegative, ChargeNull}
DriveReports == {Parked, InDrive, Unread}

\* gui_settings and vehicle_state carry the same timestamp
StoreResponses ==
    {[c \in Categories |->
        CASE c = "charge_state" -> WithTimestamp(ch, t1)
          [] c = "climate_state" -> WithTimestamp(ClimateData(BoolV(FALSE)), t2)
          [] c = "drive_state" -> WithTimestamp(dr, t3)
          [] c = "gui_settings" -> WithTimestamp(NoData, t4)
          [] c = "vehicle_state" -> WithTimestamp(VehicleData(IntV(0)), t4)] :
     ch \in ChargeReports, dr \in DriveReports,
     t1 \in 1..MaxTs, t2 \in 1..MaxTs, t3 \in 1..MaxTs, t4 \in 1..MaxTs}

InitStore ==
    /\ Init
    /\ a_allow_sleep = 1
    /\ vehicle_state = "online"

\* lines 293 and 203-285: one call of request_state_group with the response r.
\* The process ends when the call raises, or when the read of charging_state
\* at line 321 raises right after it; the intervals are not followed here.
RequestStateGroupWith(r) ==
    /\ pc = "poll"
    /\ \E g \in {request_state_group(old_values, r, now)} :
        /\ elevators' = elevators + ElevatorsStarted(old_values, r)
        /\ elevators' <= MaxElevators
        /\ old_values' = g.ov
        /\ written' = g.written
        /\ resp' = r
        /\ fetch' = "ok"
        /\ any_change' = g.any_change
        /\ pc' = IF g.raised \/ ComputeInterval(g.ov, 0, 0, g.any_change).raised
                 THEN "crashed" ELSE "stored"
    /\ UNCHANGED <<now, a_allow_sleep, noChangesPollCount, vehicle_state,
                   poll_interval, next_wakeup, previous_car_state, first_run,
                   cs_given, car_active_status, wake_requested, raw_interval>>

RequestStateGroup == \E r \in StoreResponses : RequestStateGroupWith(r)

\* the next cycle's call starts from the store the last one left
NextRequest ==
    /\ pc = "stored"
    /\ pc' = "poll"
    /\ fetch' = "none"
    /\ resp' = NoResponse
    /\ written' = NothingWritten
    /\ any_change' = FALSE
    /\ UNCHANGED <<now, a_allow_sleep, old_values, noChangesPollCount, vehicle_state,
                   poll_interval, next_wakeup, previous_car_state, first_run,
                   cs_given, car_active_status, wake_requested, raw_interval,
                   elevators>>

NextStore == RequestStateGroup \/ NextRequest

SpecStore == InitStore /\ [][NextStore]_vars

(***************************************************************************)
(* The elevation threads: request_state_group applied to responses whose   *)
(* drive_state may carry a GPS fix, and the threads ending on their own.   *)
(***************************************************************************)
GpsFix(d) == [d EXCEPT !["native_latitude"] = IntV(52), !["native_longitude"] = IntV(4)]
LatitudeOnly(d) == [d EXCEPT !["native_latitude"] = IntV(52)]

GpsReports == {Parked, GpsFix(Parked), GpsFix(InDrive), LatitudeOnly(Parked)}

GpsResponses ==
    {[c \in Categories |->
        CASE c = "charge_state" -> WithTimestamp(ChargeIdle, t1)
          [] c = "climate_state" -> WithTimestamp(ClimateData(BoolV(FALSE)), t3)
          [] c = "drive_state" -> WithTimestamp(dr, t3)
          [] c = "gui_settings" -> WithTimestamp(NoData, t3)
          [] c = "vehicle_state" -> WithTimestamp(VehicleData(IntV(0)), t3)] :
     dr \in GpsReports, t1 \in 1..MaxTs, t3 \in 1..MaxTs}

RequestElevation == \E r \in GpsResponses : RequestStateGroupWith(r)

\* elevationtoinflux returns: the thread started at line 274 ends
ElevatorFinishes ==
    /\ elevators > 0
    /\ elevators' = elevators - 1
    /\ UNCHANGED <<now, a_allow_sleep, old_values, noChangesPollCount, vehicle_state,
                   poll_interval, next_wakeup, previous_car_state, first_run, pc,
                   fetch, resp, written, cs_given, any_change, car_active_status,
                   wake_requested, raw_interval>>

NextElevation == RequestElevation \/ NextRequest \/ ElevatorFinishes

SpecElevation == InitStore /\ [][NextElevation]_vars

(***************************************************************************)
(* The classifier on its own: ongoing_activity_status applied to every     *)
(* store that one update of the empty store can leave.                     *)
(***************************************************************************)
StoredShift == {Absent, StrV("P"), StrV("R"), StrV("D"), StrV("N")}
StoredSpeed == {Absent, IntV(0), IntV(30)}
StoredChargingState == {Absent, NoneV, StrV("Charging"), StrV("Starting"),
                        StrV("charging"), StrV("Complete")}
StoredVoltage == {Absent, NoneV, IntV(0), IntV(12)}
StoredCurrent == {NoneV, IntV(0), IntV(1)}
StoredPending == {BoolV(FALSE), BoolV(TRUE)}
StoredStartTime == {NoneV, IntV(StartTime + 2), IntV(StartTime + 3)}
StoredClimate == {Absent, BoolV(TRUE)}
StoredDisplay == {Absent, IntV(0), IntV(2), IntV(4), IntV(5)}

ClassifierStores ==
    {[c \in Categories |->
        CASE c = "charge_state" ->
               WithTimestamp(ChargeData(cs, BoolV(FALSE), cv, cac, scp, scst), 1)
          [] c = "climate_state" -> WithTimestamp(ClimateData(cl), 1)
          [] c = "drive_state" -> WithTimestamp(DriveData(sh, sp), 1)
          [] c = "gui_settings" -> WithTimestamp(NoData, 1)
          [] c = "vehicle_state" -> WithTimestamp(VehicleData(di), 1)] :
     cs \in StoredChargingState, cv \in StoredVoltage, cac \in StoredCurrent,
     scp \in StoredPending, scst \in StoredStartTime, cl \in StoredClimate,
     sh \in StoredShift, sp \in StoredSpeed, di \in StoredDisplay}

InitClassify ==
    /\ now = StartTime
    /\ a_allow_sleep = 1
    /\ old_values \in ClassifierStores
    /\ noChangesPollCount = 0
    /\ vehicle_state = "online"
    /\ poll_interval = a_awake_poll_secs
    /\ next_wakeup = StartTime + a_maximum_sleep
    /\ previous_car_state = ""
    /\ first_run = TRUE
    /\ pc = "classify"
    /\ fetch = "none"
    /\ resp = NoResponse
    /\ written = NothingWritten
    /\ cs_given = 0
    /\ any_change = FALSE
    /\ car_active_status = "None"
    /\ wake_requested = FALSE
    /\ raw_interval = 0
    /\ elevators = 0

\* line 363: car_active_status = state_monitor.ongoing_activity_status()
Classify ==
    /\ pc = "classify"
    /\ \E status \in {ongoing_activity_status(old_values, now)} :
        /\ car_active_status' = IF status = "RAISE" THEN car_active_status ELSE status
        /\ pc' = IF status = "RAISE" THEN "crashed" ELSE "classified"
    /\ UNCHANGED <<now, a_allow_sleep, old_values, noChangesPollCount, vehicle_state,
                   poll_interval, next_wakeup, previous_car_state, first_run,
                   fetch, resp, written, cs_given, any_change, wake_requested,
                   raw_interval, elevators>>

NextClassify == Classify

SpecClassify == InitClassify /\ [][NextClassify]_vars

(***************************************************************************)
(* The claims.                                                             *)
(***************************************************************************)
ChargingStateOf(ov) == Get(ov["charge_state"]["charging_state"], StrV(""))
StoredIsCharging(ov) ==
    ChargingStateOf(ov) \in {StrV("Charging"), StrV("charging")}
StoredShiftState(ov) == Get(ov["drive_state"]["shift_state"], StrV(""))

\* the interval ladder as the specification lists it
IntervalLadder == <<2, 5, 15, 30, 45, 60, 120, 120, 120, 120, 120, 120, 120, 120,
                    120, 120, 2000, 120>>

\* C1 (forced-wake clamp): the interval handed to the sleep never ends after
\* next_wakeup, and an interval that would end after it is cut to exactly
\* next_wakeup - now.
C1_ForcedWakeClamp ==
    pc = "sleep" =>
        /\ now + poll_interval <= next_wakeup
        /\ (now + raw_interval > next_wakeup => poll_interval = next_wakeup - now)
        /\ (now + raw_interval <= next_wakeup => poll_interval = raw_interval)

\* a ladder interval of 15 seconds or more cut to the 1..a_maximum_sleep seconds
\* left before the wake up
C1_Witness ==
    /\ pc = "sleep"
    /\ raw_interval >= 15
    /\ poll_interval = next_wakeup - now
    /\ poll_interval > 0

\* C2 (driving dominance), as claimed: after a successful fetch with the stored
\* shift_state 'D' or 'R', check_states has returned a_awake_poll_secs.
C2_DrivingDominance ==
    (pc = "wake" /\ fetch = "ok" /\ StoredShiftState(old_values) \in {StrV("D"), StrV("R")})
        => poll_interval = a_awake_poll_secs

\* C3 (ladder order): a cycle with any_change false, the device not charging
\* and no API error increments the streak by one and returns the ladder
\* element of the new streak, the last element once the streak exceeds 18.
C3_LadderOrder ==
    [][(pc = "poll" /\ pc' = "wake" /\ fetch' \in {"ok", "timeout"} /\ ~any_change'
            /\ ~StoredIsCharging(old_values'))
        => /\ noChangesPollCount' = noChangesPollCount + 1
           /\ poll_interval' = IF noChangesPollCount' <= 18
                               THEN IntervalLadder[noChangesPollCount']
                               ELSE 120]_vars

\* an unchanged cycle whose streak is past the end of the ladder
C3_Witness ==
    /\ pc = "wake"
    /\ fetch \in {"ok", "timeout"}
    /\ ~any_change
    /\ noChangesPollCount = 19
    /\ poll_interval = 120

\* C4 (ladder reset), as claimed: every cycle with any_change true leaves the
\* streak at 0.
C4_LadderReset ==
    (pc = "wake" /\ any_change) => noChangesPollCount = 0

\* C5 (repeated timestamp): a category reported with the timestamp already
\* stored for it keeps every stored field and gets no measurement.
C5_RepeatedTimestampNoOp ==
    [][\A c \in Categories :
        (pc = "poll" /\ fetch' = "ok"
            /\ old_values[c]["timestamp"] = resp'[c]["timestamp"])
        => (old_values'[c] = old_values[c] /\ written'[c] = NoFields(c))]_vars

\* charge_state was reported with the stored timestamp and another
\* charging_state than the stored one, which is still stored
C5_Witness ==
    /\ pc = "stored"
    /\ resp["charge_state"]["timestamp"] = old_values["charge_state"]["timestamp"]
    /\ resp["charge_state"]["charging_state"]
           # old_values["charge_state"]["charging_state"]
    /\ written["charge_state"] = NoFields("charge_state")

\* C6 (per-category staleness), as claimed: every category whose reported
\* timestamp differs from the stored one gets the reported timestamp and the
\* reported fields, whatever the categories before it did.
C6_CategoryIndependence ==
    [][\A c \in Categories :
        (pc = "poll" /\ fetch' = "ok"
            /\ old_values[c]["timestamp"] # resp'[c]["timestamp"])
        => old_values'[c] = ProcessCategory(old_values[c], resp'[c])]_vars

\* The conditions of the classifier in the words of the specification; a
\* comparison with a field the device reported as null does not hold.
ClaimNumber(v, default) ==
    IF v = Absent THEN default ELSE IF IsNum(v) THEN v.i ELSE 0
ClaimDriving(ov) ==
    \/ StoredShiftState(ov) \in {StrV("R"), StrV("D"), StrV("N")}
    \/ ClaimNumber(ov["drive_state"]["speed"], 0) > 0
ClaimCharging(ov, t) ==
    \/ ChargingStateOf(ov) \in {StrV("Charging"), StrV("charging"),
                               StrV("Starting"), StrV("starting")}
    \/ /\ ClaimNumber(ov["charge_state"]["charger_voltage"], 0) > 10
       /\ ClaimNumber(ov["charge_state"]["charger_actual_current"], 0) > 0
    \/ /\ Truthy(ov["charge_state"]["scheduled_charging_pending"])
       /\ IsNum(ov["charge_state"]["scheduled_charging_start_time"])
       /\ Abs(ov["charge_state"]["scheduled_charging_start_time"].i - t) <= 2
ClaimConditioning(ov) == Truthy(ov["climate_state"]["is_climate_on"])
ClaimScreenOn(ov) ==
    ClaimNumber(ov["vehicle_state"]["center_display_state"], 0) \notin {0, 5}
ScreenLabels == {"screen on", "screen on (normal)", "screen on (charging)",
                 "screen on (sentry)", "screen on (dog mode)"}

\* C7 (classifier priority), as claimed: for every store the classifier
\* returns the first matching label of driving, charging, conditioning,
\* screen on, idle.
C7_ClassifierPriority ==
    pc # "classify" =>
        /\ pc = "classified"
        /\ IF ClaimDriving(old_values) THEN car_active_status = "driving"
           ELSE IF ClaimCharging(old_values, now) THEN car_active_status = "charging"
           ELSE IF ClaimConditioning(old_values) THEN car_active_status = "conditioning"
           ELSE IF ClaimScreenOn(old_values) THEN car_active_status \in ScreenLabels
           ELSE car_active_status = "idle"

\* the same on the stores in which every field the classifier reads is a
\* string, a number or a boolean (this one holds: see C16 for the others)
C7_PriorityWhereDefined ==
    pc = "classified" =>
        IF ClaimDriving(old_values) THEN car_active_status = "driving"
        ELSE IF ClaimCharging(old_values, now) THEN car_active_status = "charging"
        ELSE IF ClaimConditioning(old_values) THEN car_active_status = "conditioning"
        ELSE IF ClaimScreenOn(old_values) THEN car_active_status \in ScreenLabels
        ELSE car_active_status = "idle"

\* C8 (fatal reinitialize), as claimed: the -1 that check_states returns on an
\* API error with a_allow_sleep off never reaches the final clamp or the sleep.
C8_SentinelNeverUsed ==
    (pc \in {"clamp", "sleep"} /\ fetch = "httperror" /\ a_allow_sleep = 0)
        => raw_interval # -1

\* C9 (recoverable API error): on an API error with a_allow_sleep on,
\* check_states returns the interval it was given and leaves the streak and
\* every stored category as they were.
C9_RecoverableApiError ==
    [][(pc = "poll" /\ fetch' = "httperror" /\ a_allow_sleep = 1)
        => /\ pc' = "wake"
           /\ poll_interval' = poll_interval
           /\ noChangesPollCount' = noChangesPollCount
           /\ old_values' = old_values]_vars

\* an API error in a cycle that was given a ladder interval, with a streak
C9_Witness ==
    /\ pc = "wake"
    /\ fetch = "httperror"
    /\ a_allow_sleep = 1
    /\ cs_given >= 2
    /\ poll_interval = cs_given
    /\ noChangesPollCount >= 2

\* C10 (transient timeout), as claimed: on a timeout the device state is set
\* to asleep and check_states returns the interval it was given.
C10_TimeoutKeepsInterval ==
    (pc = "wake" /\ fetch = "timeout")
        => (vehicle_state = "asleep" /\ poll_interval = cs_given)

\* C10, amended: on a timeout the device state is set to asleep, the store is
\* left as it was, and check_states computes the interval from the stored data
\* as in an unchanged cycle: 5 or 15 when the stored charging_state is
\* 'charging', else the streak is incremented and its ladder element returned.
C10_TimeoutComputesFromStore ==
    [][(pc = "poll" /\ fetch' = "timeout")
        => /\ pc' = "wake"
           /\ vehicle_state' = "asleep"
           /\ old_values' = old_values
           /\ IF StoredIsCharging(old_values)
              THEN /\ noChangesPollCount' = noChangesPollCount
                   /\ poll_interval' =
                        IF old_values["charge_state"]["fast_charger_present"] = StrV("true")
                        THEN 5 ELSE 15
              ELSE /\ noChangesPollCount' = noChangesPollCount + 1
                   /\ poll_interval' = IF noChangesPollCount' <= 18
                                       THEN IntervalLadder[noChangesPollCount']
                                       ELSE 120]_vars

\* a timeout in a cycle that was given 2 seconds and returns the third ladder
\* element
C10_Witness ==
    /\ pc = "wake"
    /\ fetch = "timeout"
    /\ vehicle_state = "asleep"
    /\ cs_given = 2
    /\ noChangesPollCount = 3
    /\ poll_interval = 15

\* C11 (zero is never returned), as claimed: whatever interval check_states was
\* given and whatever the fetch did, the interval it returns is not 0.
C11_ZeroNeverReturned ==
    pc = "wake" => poll_interval # 0

\* C12 (charging tier), as claimed: not driving and the stored charging_state
\* 'charging', check_states returns 5 when the stored fast_charger_present is
\* true and 15 when it is unset or false.
C12_ChargingTier ==
    (pc = "wake" /\ fetch = "ok" /\ StoredIsCharging(old_values)
        /\ StoredShiftState(old_values) \notin {StrV("D"), StrV("R")})
    => poll_interval =
         IF Truthy(old_values["charge_state"]["fast_charger_present"])
         THEN 5 ELSE 15

\* the deadline of the specification: the scheduled start time exactly when a
\* charge is pending and now < start time < now + a_maximum_sleep
ClaimNextForcedWake(ov, t) ==
    LET pending == ov["charge_state"]["scheduled_charging_pending"]
        start == ov["charge_state"]["scheduled_charging_start_time"]
    IN  IF Truthy(pending) /\ IsNum(start) /\ t < start.i
           /\ start.i < t + a_maximum_sleep
        THEN start.i ELSE t + a_maximum_sleep

\* C13 (forced-wake deadline), as claimed: the deadline that a cycle with the
\* device online leaves is the scheduled start time exactly when a charge is
\* pending and now < start time < now + a_maximum_sleep, and
\* now + a_maximum_sleep in every other case.
C13_ForcedWakeDeadline ==
    (pc = "clamp" /\ vehicle_state = "online")
        => next_wakeup = ClaimNextForcedWake(old_values, now)

\* C14 (forced-wake trigger), as claimed: a cycle that reaches the forced-wake
\* check with now >= next_wakeup, or that is the first of the process, issues
\* a wake request and recomputes next_wakeup.
C14_ForcedWakeTrigger ==
    [][(pc = "wake" /\ pc' = "clamp" /\ (now >= next_wakeup \/ first_run))
        => /\ wake_requested'
           /\ next_wakeup' = calculate_next_wakeup(old_values, now).ret]_vars

\* C16 (no crash), as claimed: no cycle ends in an unhandled error, whatever
\* the device reported.
C16_NoUnhandledError ==
    pc # "crashed"

\* C19 (non-negative sleep), as claimed: the interval handed to the sleep
\* after the final clamp is never negative.
C19_NonNegativeSleep ==
    pc = "sleep" => poll_interval >= 0

\* C17 (validity rule): the stored charger_voltage and the charger_voltage of
\* a measurement are never negative, and a processed report of -5 is stored
\* and written as 0.
C17_VoltageNeverNegative ==
    /\ [](/\ ~(IsNum(old_values["charge_state"]["charger_voltage"])
                /\ old_values["charge_state"]["charger_voltage"].i < 0)
          /\ ~(IsNum(written["charge_state"]["charger_voltage"])
                /\ written["charge_state"]["charger_voltage"].i < 0))
    /\ [][(pc = "poll" /\ fetch' = "ok" /\ Processed(1, old_values, resp')
            /\ resp'["charge_state"]["charger_voltage"] = IntV(-5))
          => /\ old_values'["charge_state"]["charger_voltage"] = IntV(0)
             /\ written'["charge_state"]["charger_voltage"] = IntV(0)]_vars

\* a report of -5 volts that was processed: 0 is stored and 0 is written
C17_Witness ==
    /\ pc = "stored"
    /\ resp["charge_state"]["charger_voltage"] = IntV(-5)
    /\ old_values["charge_state"]["charger_voltage"] = IntV(0)
    /\ written["charge_state"]["charger_voltage"] = IntV(0)

\* C18 (missing-read substitution): when a processed drive_state reports
\* shift_state as None, the stored shift_state reads after the update as it
\* read before it (the empty string when nothing was stored) and is never
\* None; when it reports speed as None, the stored speed is 0.
C18_MissingReadSubstitution ==
    [][(pc = "poll" /\ fetch' = "ok" /\ Processed(3, old_values, resp'))
        => /\ (resp'["drive_state"]["shift_state"] = NoneV
                => /\ StoredShiftState(old_values') = StoredShiftState(old_values)
                   /\ old_values'["drive_state"]["shift_state"] # NoneV)
           /\ (resp'["drive_state"]["speed"] = NoneV
                => old_values'["drive_state"]["speed"] = IntV(0))]_vars

\* a drive_state with shift_state and speed unread, processed on a store that
\* held 'D' and 30: 'D' is kept (and written), the speed is 0
C18_Witness ==
    /\ pc = "stored"
    /\ resp["drive_state"]["shift_state"] = NoneV
    /\ resp["drive_state"]["speed"] = NoneV
    /\ old_values["drive_state"]["shift_state"] = StrV("D")
    /\ old_values["drive_state"]["speed"] = IntV(0)
    /\ written["drive_state"]["shift_state"] = StrV("D")
    /\ written["drive_state"]["speed"] = IntV(0)

\* C15 (elevation task deduplication), as claimed: at most one elevator thread
\* is running at any time, a cycle that finds one running starts no other.
C15_AtMostOneElevator ==
    elevators <= 1

\* a cycle that starts with the device asleep, after the first one, with the
\* deadline of the forced wake inside the time that is followed
AsleepCycleStarts ==
    /\ pc = "poll"
    /\ ~first_run
    /\ vehicle_state = "asleep"
    /\ next_wakeup < Deadline

\* C20 (forced wake eventually happens): when every fetch times out and the
\* clock keeps advancing, a cycle that starts with the device asleep is
\* followed by a wake request, and every cycle that reaches the forced-wake
\* check after next_wakeup issues it.
C20_ForcedWakeEventually ==
    /\ [][(pc = "wake" /\ pc' = "clamp" /\ fetch = "timeout" /\ now > next_wakeup)
            => wake_requested']_vars
    /\ (AsleepCycleStarts ~> wake_requested)

\* the device stayed asleep through several timeouts, the clock passed the
\* deadline set at the start and the wake request was issued
C20_Witness ==
    /\ pc = "clamp"
    /\ fetch = "timeout"
    /\ previous_car_state = "asleep"
    /\ noChangesPollCount >= 3
    /\ now > StartTime + a_maximum_sleep
    /\ wake_requested

====
